---- MODULE Spec2Model ----
(***************************************************************************)
(* Marketing data pipeline: the synthetic data generator                   *)
(* (src/src/extract_data.py), the BigQuery loader                          *)
(* (src/src/load_bigquery.py) and the Streamlit dashboard                  *)
(* (src/src/dashboard.py).                                                 *)
(*                                                                         *)
(* Money is counted in integers: thousandths of a currency unit before     *)
(* rounding, hundredths (cents) once round(x, 2) has been applied.         *)
(***************************************************************************)
EXTENDS Integers, Sequences, FiniteSets, TLC

VARIABLES
    rng,        \* np.random's global generator state
    stream,     \* the state np.random.seed(42) sets: fixed by numpy, open here
    genArgs,    \* arguments of the latest generate_marketing_data call
    genOut,     \* the DataFrame that call returned (a sequence of rows)
    prevOut     \* <<the DataFrame of the call before it>> if that call had the same arguments, or <<>>

VARIABLES
    lpc,         \* where load_to_bigquery stands
    csvFile,     \* the CSV file at csv_path: a header line and data lines, or no file
    datasetOk,   \* whether the destination dataset exists in the warehouse
    table,       \* the destination table: <<>> when absent, else <<[rows, created]>>
    tableBefore, \* the destination table as it was when the load began
    whClock,     \* the warehouse's clock, for creation timestamps
    job,         \* the load job: "none", "running", "done" or "failed"
    df,          \* the DataFrame read from the CSV file
    checkRaised, \* whether client.get_dataset raised in this run
    raisedAt,    \* the call whose exception ended the run, or "none"
    printed,     \* the table information printed: <<>> or <<[num_rows, num_bytes, created]>>
    ret,         \* the value load_to_bigquery returned: <<>> or <<value>>
    loads        \* the number of loads begun

genVars == <<rng, stream, genArgs, genOut, prevOut>>

loadVars == <<lpc, csvFile, datasetOk, table, tableBefore, whClock, job, df,
              checkRaised, raisedAt, printed, ret, loads>>

VARIABLES
    now,         \* the time, in seconds
    clientCache, \* st.cache_resource of get_bigquery_client: "unset", "client" or "none"
    dataCache,   \* st.cache_data of load_marketing_data: per (start_date, end_date), <<>> or <<[df, error, stored]>>
    queries,     \* per (start_date, end_date), the queries the warehouse received: [n, last]
    connects,    \* the number of times the body of get_bigquery_client ran
    ui           \* what the latest run of main() put on the page

dashVars == <<now, clientCache, dataCache, queries, connects, ui>>

vars == <<genVars, loadVars, dashVars>>

None == [none |-> TRUE]

Max(a, b) == IF a >= b THEN a ELSE b

(***************************************************************************)
(* Bounds of the model.                                                    *)
(***************************************************************************)
\* number of distinct states of the pseudo-random generator
RngMod == 16
\* the start and end dates range over MaxSpan + 1 consecutive days
MaxSpan == 2
\* a CSV file or a table holds at most MaxRows rows
MaxRows == 2
\* the loader is run at most MaxLoads times
MaxLoads == 2
\* the clock advances TickStep seconds at a time, up to MaxTime
TickStep == 100
MaxTime == 400

(***************************************************************************)
(* Calendar: a date string 'YYYY-MM-DD' is the tuple <<y, m, d>>;          *)
(* pandas turns it into a day ordinal and strftime turns it back.          *)
(***************************************************************************)
IsLeap(y) == (y % 4 = 0 /\ y % 100 # 0) \/ y % 400 = 0

DaysInMonth(y, m) ==
    IF m = 2 THEN (IF IsLeap(y) THEN 29 ELSE 28)
    ELSE IF m \in {4, 6, 9, 11} THEN 30 ELSE 31

DaysInYear(y) == IF IsLeap(y) THEN 366 ELSE 365

\* the calendar is counted from 2024-01-01 (a Monday), ordinal 0
RECURSIVE DaysBeforeMonth(_, _)
DaysBeforeMonth(y, m) ==
    IF m = 1 THEN 0 ELSE DaysBeforeMonth(y, m - 1) + DaysInMonth(y, m - 1)

RECURSIVE DaysBeforeYear(_)
DaysBeforeYear(y) ==
    IF y <= 2024 THEN 0 ELSE DaysBeforeYear(y - 1) + DaysInYear(y - 1)

ToOrdinal(date) ==
    DaysBeforeYear(date[1]) + DaysBeforeMonth(date[1], date[2]) + (date[3] - 1)

RECURSIVE YearOf(_, _)
YearOf(y, o) == IF o < DaysInYear(y) THEN <<y, o>> ELSE YearOf(y + 1, o - DaysInYear(y))

RECURSIVE MonthOf(_, _, _)
MonthOf(y, m, o) ==
    IF o < DaysInMonth(y, m) THEN <<m, o>> ELSE MonthOf(y, m + 1, o - DaysInMonth(y, m))

\* date.strftime('%Y-%m-%d')
strftime(o) ==
    LET yo == YearOf(2024, o)
        mo == MonthOf(yo[1], 1, yo[2])
    IN  <<yo[1], mo[1], mo[2] + 1>>

\* date.weekday(): Monday is 0, Sunday is 6
weekday(o) == o % 7

\* pd.date_range(start=..., end=..., freq='D') cut one day short
date_range_exclusive(start_date, end_date) ==
    LET a == ToOrdinal(start_date)
        b == ToOrdinal(end_date)
    IN  [i \in 1..Max(0, b - a) |-> a + i - 1]

\* pd.date_range(start=start_date, end=end_date, freq='D'): every day of
\* the closed range, empty when the end precedes the start
date_range(start_date, end_date) ==
    LET a == ToOrdinal(start_date)
        b == ToOrdinal(end_date)
    IN  [i \in 1..Max(0, b - a + 1) |-> a + i - 1]

(***************************************************************************)
(* np.random: a deterministic generator with one global state.  Every      *)
(* draw advances the state once and is a function of the new state.        *)
(***************************************************************************)
\* the seed call left out: the state stays what earlier draws made it
no_seed(state) == state

\* np.random.seed(42): the state depends on the seed alone
np_random_seed(state) == (42 + stream) % RngMod

\* one step of the generator (full period for every modulus 2^k)
Advance(state) == (5 * state + 3) % RngMod

\* np.random.poisson(lam): a count >= 0, non-decreasing in the raw draw
np_random_poisson(lam, u) == (2 * lam * u) \div (RngMod - 1)

\* np.random.binomial(n, p): a count in 0..n (0 < p < 1)
np_random_binomial(n, p, u) == (n * u) \div (RngMod - 1)

\* the standard normal quantile of the raw draw, in thousandths of sigma
\* (from -6.5 sigma up)
ZScore(u) == ((2 * u - RngMod) * 6500) \div RngMod

\* np.random.normal(loc, scale), in thousandths; sdPct is scale as a
\* percentage of loc (loc * 0.2 is 20, loc * 0.3 is 30)
np_random_normal(loc, sdPct, u) == loc * 1000 + (loc * sdPct * ZScore(u)) \div 100

(***************************************************************************)
(* generate_marketing_data                                                 *)
(***************************************************************************)
\* the per-source parameters; conv_rate is a percentage
Profile(source) ==
    IF source = "Google Ads" THEN
        [avg_sessions |-> 1500, avg_conv_rate |-> 5, avg_spend |-> 3000,
         avg_revenue_per_conv |-> 150]
    ELSE IF source = "Facebook Ads" THEN
        [avg_sessions |-> 1200, avg_conv_rate |-> 4, avg_spend |-> 2500,
         avg_revenue_per_conv |-> 120]
    ELSE IF source = "LinkedIn" THEN
        [avg_sessions |-> 400, avg_conv_rate |-> 6, avg_spend |-> 1500,
         avg_revenue_per_conv |-> 200]
    ELSE IF source = "Email" THEN
        [avg_sessions |-> 800, avg_conv_rate |-> 8, avg_spend |-> 500,
         avg_revenue_per_conv |-> 100]
    ELSE
        [avg_sessions |-> 2000, avg_conv_rate |-> 3, avg_spend |-> 0,
         avg_revenue_per_conv |-> 80]

\* weekday_factor, in tenths: 0.7 on Saturday and Sunday, 1.0 otherwise
weekday_factor(o) == IF weekday(o) >= 5 THEN 7 ELSE 10

\* a binomial draw whose n is the channel's average, not the day's sessions
draw_conversions_from_average(sessions, prof, u) ==
    np_random_binomial(prof.avg_sessions, prof.avg_conv_rate, u)

\* conversions = int(np.random.binomial(sessions, avg_conv_rate))
draw_conversions(sessions, prof, u) ==
    np_random_binomial(sessions, prof.avg_conv_rate, u)

\* the clamp left out
no_clamp(x) == x

\* max(0, x)
clamp(x) == Max(0, x)

\* round(x, 2): thousandths to cents, ties to the even cent
round2(x) ==
    LET q == x \div 10
        r == x % 10
    IN  IF r < 5 THEN q
        ELSE IF r > 5 THEN q + 1
        ELSE IF q % 2 = 0 THEN q ELSE q + 1

\* the raw draws of one loop iteration, from generator state s: the spend
\* draw is skipped when avg_spend is 0
Draws(source, s) ==
    LET prof == Profile(source)
        s1 == Advance(s)
        s2 == Advance(s1)
        s3 == IF prof.avg_spend > 0 THEN Advance(s2) ELSE s2
        s4 == Advance(s3)
    IN  [sessions |-> s1, conversions |-> s2, spend |-> s3, revenue |-> s4]

\* spend and revenue of one iteration before the clamp, in thousandths
RawAmounts(o, source, s) ==
    LET prof == Profile(source)
        u == Draws(source, s)
        sessions == np_random_poisson((prof.avg_sessions * weekday_factor(o)) \div 10,
                                      u.sessions)
        conversions == draw_conversions(sessions, prof, u.conversions)
    IN  [sessions |-> sessions,
         conversions |-> conversions,
         spend |-> IF prof.avg_spend > 0
                   THEN np_random_normal(prof.avg_spend, 20, u.spend) ELSE 0,
         revenue |-> conversions
                     * np_random_normal(prof.avg_revenue_per_conv, 30, u.revenue)]

\* one iteration of the loop: the appended row
Row(o, source, s) ==
    LET raw == RawAmounts(o, source, s)
    IN  [date |-> strftime(o),
         source |-> source,
         sessions |-> raw.sessions,
         conversions |-> raw.conversions,
         revenue |-> round2(clamp(raw.revenue)),
         spend |-> round2(clamp(raw.spend))]

\* for date in dates: for source in sources: ..., iterations k to n
RECURSIVE Loop(_, _, _, _, _)
Loop(dates, sources, k, n, acc) ==
    IF k > n THEN acc
    ELSE LET o == dates[((k - 1) \div Len(sources)) + 1]
             source == sources[((k - 1) % Len(sources)) + 1]
         IN  Loop(dates, sources, k + 1, n,
                  [data |-> Append(acc.data, Row(o, source, acc.rng)),
                   rng |-> Draws(source, acc.rng).revenue])

\* the whole call from generator state s: the DataFrame and the state left
generate_marketing_data(start_date, end_date, sources, s) ==
    LET dates == date_range(start_date, end_date)
    IN  Loop(dates, sources, 1, Len(dates) * Len(sources),
             [data |-> <<>>, rng |-> np_random_seed(s)])

(***************************************************************************)
(* Inputs of the generator                                                 *)
(***************************************************************************)
\* 2024-09-29 is a Sunday; the days after it cross into October
FirstDate == <<2024, 9, 29>>

DateInputs == {strftime(ToOrdinal(FirstDate) + k) : k \in 0..MaxSpan}

DefaultSources == <<"Google Ads", "Facebook Ads", "LinkedIn", "Email", "Direct">>

\* no channel, the default list, an unknown channel, a repeated channel
SourceInputs == {<<>>, DefaultSources, <<"Organic">>, <<"Email", "Email">>}

GenInit ==
    /\ rng \in 0..(RngMod - 1)
    /\ genArgs = None
    /\ genOut = <<>>
    /\ stream \in 0..(RngMod - 1)
    /\ prevOut = <<>>

GenerateCall ==
    \E start_date \in DateInputs, end_date \in DateInputs, sources \in SourceInputs :
        LET res == generate_marketing_data(start_date, end_date, sources, rng)
            args == [start_date |-> start_date, end_date |-> end_date,
                     sources |-> sources]
        IN  /\ rng' = res.rng
            /\ genArgs' = args
            /\ genOut' = res.data
            /\ prevOut' = IF genArgs = args THEN <<genOut>> ELSE <<>>
            /\ UNCHANGED stream

GenIdle ==
    /\ rng = 0
    /\ stream = 0
    /\ genArgs = None
    /\ genOut = <<>>
    /\ prevOut = <<>>

GenNext == GenerateCall /\ UNCHANGED <<loadVars, dashVars>>

(***************************************************************************)
(* Properties of the generator                                             *)
(***************************************************************************)
\* the number of days of the closed range [start_date, end_date]
NumDays(start_date, end_date) ==
    IF ToOrdinal(end_date) >= ToOrdinal(start_date)
    THEN ToOrdinal(end_date) - ToOrdinal(start_date) + 1 ELSE 0

NoRepeat(sources) ==
    \A i, j \in 1..Len(sources) : sources[i] = sources[j] => i = j

\* C1: the DataFrame holds days x channels rows, the row of day i and list
\* position j at index (i - 1) * channels + j with that day's date and that
\* channel; when no channel is listed twice every (date, channel) pair of
\* the closed range has exactly one row.
C1_OneRowPerDateAndChannel ==
    genArgs # None =>
        LET days == NumDays(genArgs.start_date, genArgs.end_date)
            n == Len(genArgs.sources)
            first == ToOrdinal(genArgs.start_date)
        IN  /\ Len(genOut) = days * n
            /\ \A i \in 1..days, j \in 1..n :
                   /\ genOut[(i - 1) * n + j].date = strftime(first + i - 1)
                   /\ genOut[(i - 1) * n + j].source = genArgs.sources[j]
            /\ NoRepeat(genArgs.sources) =>
                   \A i \in 1..days, j \in 1..n :
                       Cardinality({k \in 1..Len(genOut) :
                           /\ genOut[k].date = strftime(first + i - 1)
                           /\ genOut[k].source = genArgs.sources[j]}) = 1

\* a call over three days across the month's end with the five channels
C1_Witness ==
    /\ genArgs # None
    /\ genArgs.start_date = <<2024, 9, 29>>
    /\ genArgs.end_date = <<2024, 10, 1>>
    /\ genArgs.sources = DefaultSources
    /\ Len(genOut) = 15
    /\ genOut[15].date = <<2024, 10, 1>>

\* C2: every row of the DataFrame has 0 <= conversions <= sessions.
C2_ConversionsWithinSessions ==
    \A k \in 1..Len(genOut) :
        /\ 0 <= genOut[k].conversions
        /\ genOut[k].conversions <= genOut[k].sessions

\* a call with a row of no sessions, a row converting every session and a
\* row converting some but not all
C2_Witness ==
    /\ \E k \in 1..Len(genOut) : genOut[k].sessions = 0
    /\ \E k \in 1..Len(genOut) :
           genOut[k].sessions > 0 /\ genOut[k].conversions = genOut[k].sessions
    /\ \E k \in 1..Len(genOut) :
           genOut[k].conversions > 0 /\ genOut[k].conversions < genOut[k].sessions

\* the amounts of row k of the latest call before the clamp
RawAt(k) ==
    LET dates == date_range(genArgs.start_date, genArgs.end_date)
        sources == genArgs.sources
        before == Loop(dates, sources, 1, k - 1,
                       [data |-> <<>>, rng |-> np_random_seed(0)])
    IN  RawAmounts(dates[((k - 1) \div Len(sources)) + 1],
                   sources[((k - 1) % Len(sources)) + 1], before.rng)

\* C3: every row of the DataFrame has spend >= 0 and revenue >= 0.
C3_AmountsNotNegative ==
    \A k \in 1..Len(genOut) : genOut[k].spend >= 0 /\ genOut[k].revenue >= 0

\* a call with a negative spend draw and a negative revenue draw, each
\* stored as 0
C3_Witness ==
    /\ \E k \in 1..Len(genOut) : RawAt(k).spend < 0 /\ genOut[k].spend = 0
    /\ \E k \in 1..Len(genOut) : RawAt(k).revenue < 0 /\ genOut[k].revenue = 0

\* C4: a call that repeats the arguments of the call before it returns the
\* same DataFrame, and the DataFrame a call returns is the one it would
\* have returned from any other state of the generator before the call.
C4_SameArgumentsSameData ==
    /\ prevOut # <<>> => genOut = prevOut[1]
    /\ genArgs # None =>
           \A s \in 0..(RngMod - 1) :
               generate_marketing_data(genArgs.start_date, genArgs.end_date,
                                       genArgs.sources, s).data = genOut

\* a call repeated the arguments of the call before it, returned rows, and
\* left the generator in another state than the seed's
C4_Witness ==
    /\ prevOut # <<>>
    /\ Len(genOut) > 0
    /\ rng # np_random_seed(rng)

(***************************************************************************)
(* load_to_bigquery.  The warehouse runs the load job on its own; the       *)
(* script is single-threaded and blocks on each call.                      *)
(***************************************************************************)
\* the two row contents a file or a table is made of
RowValues == {1, 2}

RECURSIVE RowSeqs(_)
RowSeqs(n) ==
    IF n = 0 THEN {<<>>}
    ELSE RowSeqs(n - 1)
         \cup {Append(s, v) : s \in {x \in RowSeqs(n - 1) : Len(x) = n - 1},
                              v \in RowValues}

\* the files csv_path may name: none, an empty file, a header and data lines
NoFile == <<"absent">>
CsvFiles == {NoFile, <<>>} \cup {<<"header">> \o s : s \in RowSeqs(MaxRows)}

\* dataset_ref = f"{project_id}.{dataset_id}"
dataset_ref(project_id, dataset_id) == <<project_id, dataset_id>>

\* table_ref = f"{dataset_ref}.{table_id}"
table_ref(project_id, dataset_id, table_id) ==
    Append(dataset_ref(project_id, dataset_id), table_id)

\* the arguments main() passes
ProjectId == "GCP_PROJECT_ID"
DatasetId == "marketing_raw"
TableId == "daily_performance"

\* pd.read_csv(csv_path): the data lines under the header line
read_csv(file) == Tail(file)

\* a load job that keeps the rows the table held (WRITE_APPEND)
write_append(old, new) == old \o new

\* write_disposition="WRITE_TRUNCATE": the job replaces the table's rows
write_truncate(old, new) == new

\* job.result() returning without waiting for the job
result_no_wait(j) == TRUE

\* job.result() blocks until the job has ended
result_ready(j) == j \in {"done", "failed"}

\* return table_ref
return_value(ref, info) == <<ref>>

\* client.get_table(table_ref): num_rows, num_bytes (48 bytes a row), created
get_table(tbl) ==
    [num_rows |-> Len(tbl[1].rows), num_bytes |-> 48 * Len(tbl[1].rows),
     created |-> tbl[1].created]

Tables == {<<>>} \cup {<<[rows |-> s, created |-> 0]>> : s \in RowSeqs(MaxRows + 1)}

LoadIdle ==
    /\ lpc = "idle"
    /\ csvFile = NoFile
    /\ datasetOk = FALSE
    /\ table = <<>>
    /\ tableBefore = <<>>
    /\ whClock = 0
    /\ job = "none"
    /\ df = <<>>
    /\ checkRaised = FALSE
    /\ raisedAt = "none"
    /\ printed = <<>>
    /\ ret = <<>>
    /\ loads = 0

\* the warehouse before the first load: no dataset, or a dataset with or
\* without the table
LoadInit ==
    /\ lpc = "idle"
    /\ csvFile = NoFile
    /\ datasetOk \in BOOLEAN
    /\ table \in (IF datasetOk THEN Tables ELSE {<<>>})
    /\ tableBefore = table
    /\ whClock = 1
    /\ job = "none"
    /\ df = <<>>
    /\ checkRaised = FALSE
    /\ raisedAt = "none"
    /\ printed = <<>>
    /\ ret = <<>>
    /\ loads = 0

\* main() calls load_to_bigquery with the file now at csv_path; the client
\* is built
StartLoad ==
    /\ lpc \in {"idle", "done", "failed"}
    /\ loads < MaxLoads
    /\ \E file \in CsvFiles : csvFile' = file
    /\ lpc' = "get_dataset"
    /\ tableBefore' = table
    /\ job' = "none"
    /\ df' = <<>>
    /\ checkRaised' = FALSE
    /\ raisedAt' = "none"
    /\ printed' = <<>>
    /\ ret' = <<>>
    /\ loads' = loads + 1
    /\ UNCHANGED <<datasetOk, table, whClock>>

\* try: client.get_dataset(dataset_ref) returns
GetDatasetFound ==
    /\ lpc = "get_dataset"
    /\ datasetOk
    /\ lpc' = "read_csv"
    /\ UNCHANGED <<csvFile, datasetOk, table, tableBefore, whClock, job, df,
                   checkRaised, raisedAt, printed, ret, loads>>

\* client.get_dataset raises: NotFound when the dataset is missing, or any
\* other error of the service whether it exists or not; the bare except
\* takes them all
GetDatasetRaises ==
    /\ lpc = "get_dataset"
    /\ checkRaised' = TRUE
    /\ lpc' = "create_dataset"
    /\ UNCHANGED <<csvFile, datasetOk, table, tableBefore, whClock, job, df,
                   raisedAt, printed, ret, loads>>

\* except: client.create_dataset(dataset) creates the missing dataset
CreateDatasetOk ==
    /\ lpc = "create_dataset"
    /\ ~datasetOk
    /\ datasetOk' = TRUE
    /\ lpc' = "read_csv"
    /\ UNCHANGED <<csvFile, table, tableBefore, whClock, job, df, checkRaised,
                   raisedAt, printed, ret, loads>>

\* client.create_dataset raises Conflict for a dataset that exists (it is
\* called without exists_ok); nothing catches it
CreateDatasetConflict ==
    /\ lpc = "create_dataset"
    /\ datasetOk
    /\ lpc' = "failed"
    /\ raisedAt' = "create_dataset"
    /\ UNCHANGED <<csvFile, datasetOk, table, tableBefore, whClock, job, df,
                   checkRaised, printed, ret, loads>>

\* pd.read_csv(csv_path): raises for a missing or an empty file
ReadCsv ==
    /\ lpc = "read_csv"
    /\ IF csvFile = NoFile \/ csvFile = <<>>
       THEN /\ lpc' = "failed"
            /\ raisedAt' = "read_csv"
            /\ df' = df
       ELSE /\ lpc' = "load_table"
            /\ raisedAt' = raisedAt
            /\ df' = read_csv(csvFile)
    /\ UNCHANGED <<csvFile, datasetOk, table, tableBefore, whClock, job,
                   checkRaised, printed, ret, loads>>

\* job = client.load_table_from_dataframe(df, table_ref, job_config)
LoadTableFromDataframe ==
    /\ lpc = "load_table"
    /\ job' = "running"
    /\ lpc' = "job_result"
    /\ UNCHANGED <<csvFile, datasetOk, table, tableBefore, whClock, df,
                   checkRaised, raisedAt, printed, ret, loads>>

\* the warehouse completes the job: all of the DataFrame's rows are
\* written, under the job's write disposition, in one step
JobCompletes ==
    /\ job = "running"
    /\ job' = "done"
    /\ table' = IF table = <<>>
                THEN <<[rows |-> write_truncate(<<>>, df), created |-> whClock]>>
                ELSE <<[rows |-> write_truncate(table[1].rows, df),
                        created |-> table[1].created]>>
    /\ whClock' = whClock + 1
    /\ UNCHANGED <<lpc, csvFile, datasetOk, tableBefore, df, checkRaised,
                   raisedAt, printed, ret, loads>>

\* the warehouse fails the job: the table is left as it was
JobFails ==
    /\ job = "running"
    /\ job' = "failed"
    /\ UNCHANGED <<lpc, csvFile, datasetOk, table, tableBefore, whClock, df,
                   checkRaised, raisedAt, printed, ret, loads>>

\* job.result(): returns once the job is done, raises once it has failed
JobResult ==
    /\ lpc = "job_result"
    /\ result_ready(job)
    /\ IF job = "failed"
       THEN lpc' = "failed" /\ raisedAt' = "job_result"
       ELSE lpc' = "get_table" /\ raisedAt' = raisedAt
    /\ UNCHANGED <<csvFile, datasetOk, table, tableBefore, whClock, job, df,
                   checkRaised, printed, ret, loads>>

\* table = client.get_table(table_ref), the prints, return table_ref
GetTableAndReturn ==
    /\ lpc = "get_table"
    /\ IF table = <<>>
       THEN /\ lpc' = "failed"
            /\ raisedAt' = "get_table"
            /\ UNCHANGED <<printed, ret>>
       ELSE /\ lpc' = "done"
            /\ raisedAt' = raisedAt
            /\ printed' = <<get_table(table)>>
            /\ ret' = return_value(table_ref(ProjectId, DatasetId, TableId),
                                   get_table(table))
    /\ UNCHANGED <<csvFile, datasetOk, table, tableBefore, whClock, job, df,
                   checkRaised, loads>>

LoadNext ==
    \/ StartLoad /\ UNCHANGED <<genVars, dashVars>>
    \/ GetDatasetFound /\ UNCHANGED <<genVars, dashVars>>
    \/ GetDatasetRaises /\ UNCHANGED <<genVars, dashVars>>
    \/ CreateDatasetOk /\ UNCHANGED <<genVars, dashVars>>
    \/ CreateDatasetConflict /\ UNCHANGED <<genVars, dashVars>>
    \/ ReadCsv /\ UNCHANGED <<genVars, dashVars>>
    \/ LoadTableFromDataframe /\ UNCHANGED <<genVars, dashVars>>
    \/ JobCompletes /\ UNCHANGED <<genVars, dashVars>>
    \/ JobFails /\ UNCHANGED <<genVars, dashVars>>
    \/ JobResult /\ UNCHANGED <<genVars, dashVars>>
    \/ GetTableAndReturn /\ UNCHANGED <<genVars, dashVars>>

(***************************************************************************)
(* Properties of the loader                                                *)
(***************************************************************************)
\* C6: when load_to_bigquery has returned, the destination table holds the
\* data lines of the CSV file, in order, and nothing else, whatever it
\* held when the load began.
C6_TableHoldsExactlyTheFile ==
    lpc = "done" => (table # <<>> /\ <<"header">> \o table[1].rows = csvFile)

\* a second load has returned after replacing a table of three rows by a
\* file of one row
C6_Witness ==
    /\ lpc = "done"
    /\ loads = 2
    /\ tableBefore # <<>>
    /\ Len(tableBefore[1].rows) = 3
    /\ Len(table[1].rows) = 1
    /\ table[1].rows[1] # tableBefore[1].rows[1]

\* C7: once the existence check has raised, the dataset is created: the
\* run gets past create_dataset with the dataset in place and no error of
\* that call is surfaced.
C7_CheckFailureLeadsToCreation ==
    (checkRaised /\ lpc # "create_dataset") =>
        (datasetOk /\ raisedAt # "create_dataset")

\* C8 as stated: the value returned carries the destination identifier
\* together with the table's row count, byte size and creation timestamp.
C8_ReturnsIdentifierAndStatistics ==
    lpc = "done" =>
        ret = <<[table_ref |-> <<ProjectId, DatasetId, TableId>>,
                 info |-> get_table(table)]>>

\* C8 amended: the value returned is the destination identifier alone; the
\* row count, byte size and creation timestamp are printed, and they are
\* those of the table after the write: the job is done when the call
\* returns and the printed figures describe the rows just loaded.
C8_ReturnsIdentifierPrintsStatistics ==
    lpc = "done" =>
        /\ ret = <<<<ProjectId, DatasetId, TableId>>>>
        /\ job = "done"
        /\ table # <<>>
        /\ printed = <<[num_rows |-> Len(df), num_bytes |-> 48 * Len(df),
                        created |-> table[1].created]>>
        /\ table[1].rows = df

\* a load into a warehouse without the table has returned: the table was
\* created by the job and its two rows were reported
C8_Witness ==
    /\ lpc = "done"
    /\ tableBefore = <<>>
    /\ printed # <<>>
    /\ printed[1].num_rows = 2
    /\ printed[1].created > 0

(***************************************************************************)
(* The dashboard.  Amounts are in cents, ratios in hundredths.             *)
(***************************************************************************)
\* @st.cache_data(ttl=300)
TTL == 300

\* a float: a number (in hundredths), or what a division by zero leaves
Num(x) == [kind |-> "num", val |-> x]
Inf == [kind |-> "inf", val |-> 0]
NaN == [kind |-> "nan", val |-> 0]

\* revenue / spend on float64 columns: a zero divisor gives inf, and nan
\* for 0 / 0, without raising
FloatDiv(a, b) ==
    IF b # 0 THEN Num((a * 100) \div b)
    ELSE IF a = 0 THEN NaN
    ELSE Inf

RECURSIVE SumSeq(_)
SumSeq(s) == IF s = <<>> THEN 0 ELSE Head(s) + SumSeq(Tail(s))

\* stg_marketing_daily, as the warehouse holds it: two days, a paid
\* channel, a channel without spend and a channel without spend or revenue
StgTable ==
    << [date |-> 1, marketing_source |-> "Google Ads", spend |-> 10000,
        sessions |-> 100, conversions |-> 5, revenue |-> 25000],
       [date |-> 1, marketing_source |-> "Direct", spend |-> 0,
        sessions |-> 200, conversions |-> 6, revenue |-> 8000],
       [date |-> 2, marketing_source |-> "Google Ads", spend |-> 20000,
        sessions |-> 150, conversions |-> 3, revenue |-> 10000],
       [date |-> 2, marketing_source |-> "Referral", spend |-> 0,
        sessions |-> 10, conversions |-> 0, revenue |-> 0] >>

\* the date ranges the two date_input widgets are set to: both days, and a
\* range that ends before it starts
Keys == {<<1, 2>>, <<2, 1>>}

\* the rows of one date, in table order
RowsOfDate(d, start_date, end_date) ==
    SelectSeq(StgTable, LAMBDA r : r.date = d /\ r.date >= start_date
                                            /\ r.date <= end_date)

\* WHERE date >= @start_date AND date <= @end_date ORDER BY date DESC
RECURSIVE QueryFrom(_, _, _)
QueryFrom(d, start_date, end_date) ==
    IF d < 1 THEN <<>>
    ELSE RowsOfDate(d, start_date, end_date) \o QueryFrom(d - 1, start_date, end_date)

run_query(start_date, end_date) == QueryFrom(2, start_date, end_date)

\* a cache that never serves an entry
never_fresh(entry, t) == FALSE

\* the entry is served while it is younger than ttl
fresh(entry, t) == entry # <<>> /\ t < entry[1].stored + TTL

\* groupby sorts its groups by the source's name
SourceOrder == <<"Direct", "Email", "Facebook Ads", "Google Ads", "LinkedIn", "Referral">>

SourcesOf(rows) ==
    SelectSeq(SourceOrder, LAMBDA s : \E i \in 1..Len(rows) : rows[i].marketing_source = s)

RowsOfSource(rows, s) == SelectSeq(rows, LAMBDA r : r.marketing_source = s)

\* df.groupby('marketing_source').agg(sum).reset_index()
GroupBySource(rows) ==
    LET names == SourcesOf(rows)
    IN  [i \in 1..Len(names) |->
            LET g == RowsOfSource(rows, names[i])
            IN  [marketing_source |-> names[i],
                 spend |-> SumSeq([j \in 1..Len(g) |-> g[j].spend]),
                 revenue |-> SumSeq([j \in 1..Len(g) |-> g[j].revenue]),
                 conversions |-> SumSeq([j \in 1..Len(g) |-> g[j].conversions]),
                 sessions |-> SumSeq([j \in 1..Len(g) |-> g[j].sessions])]]

\* the place of a float in an ascending sort: numbers, then inf, then nan
SortKey(x) ==
    IF x.kind = "num" THEN x.val
    ELSE IF x.kind = "inf" THEN 1000000000
    ELSE 1000000001

\* sort_values(..., ascending=True) of rows carrying their key in field k
RECURSIVE InsertByK(_, _)
InsertByK(x, s) ==
    IF s = <<>> THEN <<x>>
    ELSE IF x.k < Head(s).k THEN <<x>> \o s
    ELSE <<Head(s)>> \o InsertByK(x, Tail(s))

RECURSIVE SortByK(_)
SortByK(s) ==
    IF s = <<>> THEN <<>>
    ELSE InsertByK(s[Len(s)], SortByK(SubSeq(s, 1, Len(s) - 1)))

\* source_agg['roas'] = source_agg['revenue'] / source_agg['spend']
source_roas(revenue, spend) == FloatDiv(revenue, spend)

\* red below 1, yellow below 2, green otherwise (comparisons with nan are false)
roas_color(x) ==
    IF x.kind = "num" /\ x.val < 100 THEN "#FF6B6B"
    ELSE IF x.kind = "num" /\ x.val < 200 THEN "#FFD93D"
    ELSE "#6BCF7F"

\* the bars of plot_roas_by_source, sorted by roas
plot_roas_by_source(rows) ==
    LET agg == GroupBySource(rows)
        bars == [i \in 1..Len(agg) |->
                    LET roas == source_roas(agg[i].revenue, agg[i].spend)
                    IN  [marketing_source |-> agg[i].marketing_source,
                         spend |-> agg[i].spend,
                         roas |-> roas,
                         color |-> roas_color(roas),
                         k |-> SortKey(roas)]]
    IN  SortByK(bars)

\* the bars of plot_channel_performance, sorted by revenue
plot_channel_performance(rows) ==
    LET agg == GroupBySource(rows)
        bars == [i \in 1..Len(agg) |->
                    [marketing_source |-> agg[i].marketing_source,
                     spend |-> agg[i].spend,
                     revenue |-> agg[i].revenue,
                     roas |-> source_roas(agg[i].revenue, agg[i].spend),
                     k |-> agg[i].revenue]]
    IN  SortByK(bars)

\* the points of plot_daily_trend: spend, revenue and conversions per date
plot_daily_trend(rows) ==
    LET dates == SelectSeq(<<1, 2>>, LAMBDA d : \E i \in 1..Len(rows) : rows[i].date = d)
    IN  [i \in 1..Len(dates) |->
            LET g == SelectSeq(rows, LAMBDA r : r.date = dates[i])
            IN  [date |-> dates[i],
                 spend |-> SumSeq([j \in 1..Len(g) |-> g[j].spend]),
                 revenue |-> SumSeq([j \in 1..Len(g) |-> g[j].revenue]),
                 conversions |-> SumSeq([j \in 1..Len(g) |-> g[j].conversions])]]

\* the two stages of plot_conversion_funnel
plot_conversion_funnel(rows) ==
    [Sessions |-> SumSeq([j \in 1..Len(rows) |-> rows[j].sessions]),
     Conversions |-> SumSeq([j \in 1..Len(rows) |-> rows[j].conversions])]

\* display_kpis: the totals and the three guarded ratios
display_kpis(rows) ==
    LET total_spend == SumSeq([j \in 1..Len(rows) |-> rows[j].spend])
        total_revenue == SumSeq([j \in 1..Len(rows) |-> rows[j].revenue])
        total_conversions == SumSeq([j \in 1..Len(rows) |-> rows[j].conversions])
        total_sessions == SumSeq([j \in 1..Len(rows) |-> rows[j].sessions])
    IN  [total_spend |-> total_spend,
         total_revenue |-> total_revenue,
         total_conversions |-> total_conversions,
         avg_roas |-> IF total_spend > 0
                      THEN FloatDiv(total_revenue, total_spend) ELSE Num(0),
         avg_roi |-> IF total_spend > 0
                     THEN FloatDiv((total_revenue - total_spend) * 100, total_spend)
                     ELSE Num(0),
         conversion_rate |-> IF total_sessions > 0
                             THEN FloatDiv(total_conversions * 100, total_sessions)
                             ELSE Num(0)]

\* df.empty
df_empty(rows) == rows = <<>>

\* the page before main() has run, and the parts a run may leave out
BlankPage ==
    [key |-> <<>>, selected_source |-> "All", client_lookup |-> "none",
     lookup |-> "none",
     conn_error |-> FALSE, load_error |-> FALSE, warning |-> FALSE,
     df |-> <<>>, kpis |-> <<>>, roas_chart |-> <<>>, channel_chart |-> <<>>,
     daily_trend |-> <<>>, funnel |-> <<>>, data_table |-> <<>>,
     exception |-> FALSE]

DashInit ==
    /\ now = 0
    /\ clientCache = "unset"
    /\ dataCache = [k \in Keys |-> <<>>]
    /\ queries = [k \in Keys |-> [n |-> 0, last |-> 0]]
    /\ connects = 0
    /\ ui = BlankPage

\* time passes
Tick ==
    /\ now + TickStep <= MaxTime
    /\ now' = now + TickStep
    /\ UNCHANGED <<clientCache, dataCache, queries, connects, ui>>

\* the page main() renders from a non-empty DataFrame and the source picked
\* in the select box
RenderedPage(key, client_lookup, lookup, load_error, data, selected_source) ==
    LET rows == IF selected_source # "All"
                THEN RowsOfSource(data, selected_source) ELSE data
    IN  [BlankPage EXCEPT
            !.key = key, !.selected_source = selected_source,
            !.client_lookup = client_lookup, !.lookup = lookup,
            !.load_error = load_error,
            !.df = data,
            !.kpis = <<display_kpis(rows)>>,
            !.roas_chart = plot_roas_by_source(rows),
            !.channel_chart = plot_channel_performance(rows),
            !.daily_trend = plot_daily_trend(rows),
            !.funnel = <<plot_conversion_funnel(rows)>>,
            !.data_table = rows]

\* load_marketing_data without its try/except: the query's error leaves
\* the function
load_marketing_data_uncaught(start_date, end_date, query_ok, t) ==
    IF query_ok
    THEN [df |-> run_query(start_date, end_date), error |-> FALSE,
          raised |-> FALSE, stored |-> t]
    ELSE [df |-> <<>>, error |-> FALSE, raised |-> TRUE, stored |-> t]

\* the body of load_marketing_data, run at time t: the query's rows, or
\* st.error and an empty DataFrame when the query raises
load_marketing_data(start_date, end_date, query_ok, t) ==
    IF query_ok
    THEN [df |-> run_query(start_date, end_date), error |-> FALSE,
          raised |-> FALSE, stored |-> t]
    ELSE [df |-> <<>>, error |-> TRUE, raised |-> FALSE, stored |-> t]

\* the body of get_bigquery_client: a client, or st.error and None when
\* building it raises
get_bigquery_client(credentials) == IF credentials THEN "client" ELSE "none"

\* a resource cache that keeps clients only: a None result is computed anew
cache_resource_clients_only(cached, credentials) ==
    IF cached = "client"
    THEN [client |-> cached, ran |-> FALSE]
    ELSE [client |-> get_bigquery_client(credentials), ran |-> TRUE]

\* @st.cache_resource: the first call runs the body and its return value,
\* a client or None, is kept and served to every later call
cache_resource(cached, credentials) ==
    IF cached # "unset"
    THEN [client |-> cached, ran |-> FALSE]
    ELSE [client |-> get_bigquery_client(credentials), ran |-> TRUE]

\* one run of main(): the client (cached for the process), the data
\* (cached per date range for ttl seconds), then the page.  credentials
\* tells whether a client can be built, query_ok whether the warehouse
\* answers the query.  An exception leaving the cached function is not
\* cached and ends the run.
Render ==
    \E key \in Keys, credentials \in BOOLEAN, query_ok \in BOOLEAN,
       selected_source \in {"All"} \cup {SourceOrder[i] : i \in 1..Len(SourceOrder)} :
        LET got == cache_resource(clientCache, credentials)
            client == got.client
            client_lookup == IF got.ran THEN "miss" ELSE "hit"
            hit == fresh(dataCache[key], now)
            entry == IF hit THEN dataCache[key][1]
                     ELSE load_marketing_data(key[1], key[2], query_ok, now)
            lookup == IF hit THEN "hit"
                      ELSE IF dataCache[key] = <<>> THEN "miss" ELSE "expired"
        IN  /\ clientCache' = client
            /\ connects' = IF got.ran THEN connects + 1 ELSE connects
            /\ UNCHANGED now
            /\ IF client = "none"
               THEN /\ selected_source = "All"
                    /\ ui' = [BlankPage EXCEPT !.client_lookup = client_lookup,
                                               !.conn_error = TRUE]
                    /\ UNCHANGED <<dataCache, queries>>
               ELSE /\ selected_source \in
                           {"All"} \cup {entry.df[i].marketing_source :
                                            i \in 1..Len(entry.df)}
                    /\ queries' = IF hit THEN queries
                                  ELSE [queries EXCEPT
                                           ![key] = [n |-> @.n + 1, last |-> now]]
                    /\ dataCache' = IF entry.raised THEN dataCache
                                    ELSE [dataCache EXCEPT ![key] = <<entry>>]
                    /\ ui' = IF entry.raised
                             THEN [BlankPage EXCEPT
                                      !.key = key,
                                      !.client_lookup = client_lookup,
                                      !.lookup = lookup,
                                      !.exception = TRUE]
                             ELSE IF df_empty(entry.df)
                             THEN [BlankPage EXCEPT
                                      !.key = key,
                                      !.client_lookup = client_lookup,
                                      !.lookup = lookup,
                                      !.load_error = entry.error,
                                      !.warning = TRUE]
                             ELSE RenderedPage(key, client_lookup, lookup, entry.error,
                                               entry.df, selected_source)

DashNext ==
    \/ Tick /\ UNCHANGED <<genVars, loadVars>>
    \/ Render /\ UNCHANGED <<genVars, loadVars>>

(***************************************************************************)
(* Properties of the dashboard                                             *)
(***************************************************************************)
\* C5: on the page, every channel whose total spend over the displayed
\* rows is zero has ROAS 0 in the ROAS chart and in the channel chart, and
\* the KPI ROAS is 0 when the total spend is zero.
C5_ZeroSpendRoasIsZero ==
    /\ \A i \in 1..Len(ui.roas_chart) :
           ui.roas_chart[i].spend = 0 => ui.roas_chart[i].roas = Num(0)
    /\ \A i \in 1..Len(ui.channel_chart) :
           ui.channel_chart[i].spend = 0 => ui.channel_chart[i].roas = Num(0)
    /\ \A i \in 1..Len(ui.kpis) :
           ui.kpis[i].total_spend = 0 => ui.kpis[i].avg_roas = Num(0)

\* C9: a run of main() whose query failed or found no row ends with the
\* warning, without KPIs, charts or table, and without an exception.
C9_NoDataIsNotAnError ==
    (ui.lookup # "none"
     /\ (ui.load_error \/ run_query(ui.key[1], ui.key[2]) = <<>>)) =>
        /\ ui.warning
        /\ ~ui.exception
        /\ ui.kpis = <<>>
        /\ ui.roas_chart = <<>>
        /\ ui.channel_chart = <<>>
        /\ ui.daily_trend = <<>>
        /\ ui.funnel = <<>>
        /\ ui.data_table = <<>>

\* a run for a range that has rows in the warehouse, after a query that
\* failed, has shown the warning
C9_Witness ==
    /\ ui.lookup # "none"
    /\ ui.load_error
    /\ run_query(ui.key[1], ui.key[2]) # <<>>
    /\ ui.warning

\* C10: a run of main() for a date range queries the warehouse exactly when
\* the range was never queried or its last query is ttl seconds old or
\* older; otherwise it is served from the cache.  So two queries for one
\* range are at least ttl seconds apart.
C10_OneQueryPerRangePerWindow ==
    [][\A k \in Keys :
          LET asked == queries'[k].n # queries[k].n
              rendered == now' = now /\ ui'.key = k
              due == queries[k].n = 0 \/ now >= queries[k].last + TTL
          IN  /\ asked => queries'[k].n = queries[k].n + 1
              /\ asked => (rendered /\ due /\ queries'[k].last = now
                           /\ ui'.lookup \in {"miss", "expired"})
              /\ (rendered /\ ~due) => (~asked /\ ui'.lookup = "hit")
              /\ (rendered /\ due) => asked]_vars

\* the range was queried a second time once its entry had expired, and a
\* later run is served from the cache
C10_Witness ==
    /\ ui.key = <<1, 2>>
    /\ ui.lookup = "hit"
    /\ queries[<<1, 2>>].n = 2
    /\ queries[<<1, 2>>].last = TTL
    /\ now > queries[<<1, 2>>].last
    /\ queries[<<2, 1>>].n = 1

\* C11: failures are kept like successes.  Once get_bigquery_client has
\* returned None, no later step runs its body again, issues a query or
\* stores data, and every later run of main() ends with the connection
\* error alone.  While the entry of a date range is the empty result of a
\* failed query and is younger than ttl seconds, no step queries that
\* range or replaces the entry, and a run for the range shows the stored
\* error and the warning from the cache; a run for the range once the
\* entry is ttl seconds old queries again.
C11_FailuresAreMemoized ==
    [][/\ clientCache = "none" =>
            /\ clientCache' = "none"
            /\ connects' = connects
            /\ queries' = queries
            /\ dataCache' = dataCache
            /\ now' = now =>
                   ui' = [BlankPage EXCEPT !.client_lookup = "hit",
                                           !.conn_error = TRUE]
       /\ \A k \in Keys :
            LET failed == dataCache[k] # <<>> /\ dataCache[k][1].error
                live == now < dataCache[k][1].stored + TTL
                rendered == now' = now /\ ui'.key = k
            IN  /\ failed => dataCache[k][1].df = <<>>
                /\ (failed /\ live) =>
                       /\ queries'[k] = queries[k]
                       /\ dataCache'[k] = dataCache[k]
                       /\ rendered =>
                              /\ ui'.lookup = "hit"
                              /\ ui'.load_error
                              /\ ui'.warning
                              /\ ui'.df = <<>>
                /\ (failed /\ ~live /\ rendered) =>
                       /\ queries'[k].n = queries[k].n + 1
                       /\ ui'.lookup = "expired"]_vars

\* the connection failed once, time has passed, and a later run of main()
\* was served the kept None: it stopped at the connection error, and the
\* warehouse has received no query
C11_Witness ==
    /\ clientCache = "none"
    /\ connects = 1
    /\ now >= TTL
    /\ ui.client_lookup = "hit"
    /\ ui.conn_error
    /\ \A k \in Keys : queries[k].n = 0 /\ dataCache[k] = <<>>

\* a query for a range that has rows failed, time has passed within ttl,
\* and a later run for the range was served the kept empty result: the
\* warehouse has received that one query only
C11_WitnessCachedError ==
    /\ clientCache = "client"
    /\ ui.key = <<1, 2>>
    /\ ui.lookup = "hit"
    /\ ui.load_error
    /\ ui.warning
    /\ queries[<<1, 2>>].n = 1
    /\ now > queries[<<1, 2>>].last
    /\ now < queries[<<1, 2>>].last + TTL

(***************************************************************************)
(* Specifications                                                          *)
(***************************************************************************)
InitGen == GenInit /\ LoadIdle /\ DashInit

InitLoad == LoadInit /\ GenIdle /\ DashInit

InitDash == DashInit /\ GenIdle /\ LoadIdle

SpecGen == InitGen /\ [][GenNext]_vars

SpecLoad == InitLoad /\ [][LoadNext]_vars

SpecDash == InitDash /\ [][DashNext]_vars

====
